---- MODULE Spec2Model ----
(***************************************************************************)
(* Mpire Ping Pong: the match state machine (Game), the per-frame          *)
(* simulation step (GameScene useFrame), the ball reset (doReset) and the  *)
(* between-points timer (handleScore's setTimeout).                        *)
(*                                                                         *)
(* Numbers are fixed point.  Lengths are in 1/1000 of a world unit,        *)
(* velocities in 1/1000 unit per second, times in milliseconds, the        *)
(* normalised pointer coordinate and the pursuit gain in 1/1000.  A        *)
(* product that the source computes in floating point is rounded to the    *)
(* nearest quantum (RoundDiv).                                             *)
(*                                                                         *)
(* React state (phase, difficulty, scores, winner) is committed together   *)
(* with the handler that sets it, and GameScene's render (scoredRef,       *)
(* prevPhase) runs with that commit.                                       *)
(***************************************************************************)
EXTENDS Integers, Sequences, FiniteSets

\* ------------------------------------------------------------ constants
TABLE_W == 6000
TABLE_D == 10000
PADDLE_W == 1200
PADDLE_D == 250
BALL_R == 150
WIN_SCORE == 7
PLAYER_Z == TABLE_D \div 2 - 500
AI_Z == -(TABLE_D \div 2) + 500
BALL_LAUNCH_SPEED == 3500

\* the delay of the between-points timer, ms
RESET_DELAY == 1200
\* the upper bound of the simulated time of one frame, ms
DT_MAX == 50
\* deflection constants (units per second, in 1/1000) and growth factors (in 1/100)
PLAYER_DEFLECT == 3000
AI_DEFLECT == 2000
PLAYER_GROWTH == 105
AI_GROWTH == 103
\* the half range of the launch angle, in 1/1000 radian
LAUNCH_HALF_ANGLE == 250

Difficulty == {"easy", "medium", "hard", "very_hard"}
Phase == {"start", "rules", "difficulty", "playing", "between", "won"}

DIFF ==
  [d \in Difficulty |->
     CASE d = "easy"      -> [lerp |-> 38,  speedInit |-> 8000,  speedMax |-> 18000]
       [] d = "medium"    -> [lerp |-> 75,  speedInit |-> 10000, speedMax |-> 24000]
       [] d = "hard"      -> [lerp |-> 140, speedInit |-> 13000, speedMax |-> 30000]
       [] d = "very_hard" -> [lerp |-> 550, speedInit |-> 16000, speedMax |-> 38000]]

\* ------------------------------------------------------------ bounds
\* paddle contacts explored in one point of a match
MaxRally == 3
\* paddle contacts explored in one of the first points
MaxPointRally == 2
\* the points explored over the whole range of serves and pointers
MaxPoints == 2
\* the deviation allowed to a computed speed, in quanta of 1/1000
SpeedTol == 1
\* paddle contacts explored in a rally at 60 frames per second
MaxLongRally == 24
\* the distance of the ball from a contact band, in 1/1000, where a contact is set up
ApproachGap == 25
\* a frame after a stall of the render loop lasts this many times DT_MAX
StallFactor == 2
\* the time of a frame at 60 frames per second, at most this many ms
FineDelta == 16

\* ------------------------------------------------------------ arithmetic
Abs(a) == IF a < 0 THEN -a ELSE a
Min(a, b) == IF a < b THEN a ELSE b
Max(a, b) == IF a > b THEN a ELSE b

\* a / b rounded to the nearest integer, halves away from zero (b > 0)
RoundDiv(a, b) ==
  IF a >= 0 THEN (2 * a + b) \div (2 * b) ELSE -((2 * (-a) + b) \div (2 * b))

RECURSIVE Newton(_, _)
Newton(n, r) ==
  LET q == (r + n \div r) \div 2
  IN IF q >= r THEN r ELSE Newton(n, q)

\* the integer part of the square root of n
ISqrt(n) == IF n <= 0 THEN 0 ELSE IF n < 4 THEN 1 ELSE Newton(n, n \div 2)

\* the square root of n, to the nearest integer
Sqrt(n) == LET r == ISqrt(n) IN IF n - r * r > r THEN r + 1 ELSE r

\* sine and cosine of a (1/1000 radian, |a| <= 250), in 1/10000: Taylor
\* polynomials on the angle in 1/10000 radian, exact to the last digit there
Sin(a) ==
  LET t  == 10 * a
      t2 == RoundDiv(t * t, 10000)
      t3 == RoundDiv(t2 * t, 10000)
      t5 == RoundDiv(RoundDiv(t3 * t, 10000) * t, 10000)
  IN t - RoundDiv(t3, 6) + RoundDiv(t5, 120)

Cos(a) ==
  LET t  == 10 * a
      t2 == RoundDiv(t * t, 10000)
      t4 == RoundDiv(t2 * t2, 10000)
  IN 10000 - RoundDiv(t2, 2) + RoundDiv(t4, 24)

\* ------------------------------------------------------------ vectors
\* THREE.Vector3 restricted to the table plane (y is constant)
Vec(x, z) == [x |-> x, z |-> z]
LengthSq(v) == v.x * v.x + v.z * v.z
Length(v) == Sqrt(LengthSq(v))
MultiplyScalar(v, num, den) == Vec(RoundDiv(v.x * num, den), RoundDiv(v.z * num, den))
\* clone().normalize().multiplyScalar(s): normalize() divides by (length || 1).
\* The length is taken to a quarter of a quantum, which keeps the result within
\* one quantum of length s
NormalizeTo(v, s) ==
  LET l4 == IF LengthSq(v) = 0 THEN 4000 ELSE Sqrt(16 * LengthSq(v))
  IN Vec(RoundDiv(4 * v.x * s, l4), RoundDiv(4 * v.z * s, l4))

\* ------------------------------------------------------------ doReset
Centre == Vec(0, 0)
\* (mutant) the serve sent to the other side
LaunchVelAway(a, towardPlayer) ==
  Vec(RoundDiv(Sin(a) * BALL_LAUNCH_SPEED, 10000),
      (IF towardPlayer THEN -1 ELSE 1) * RoundDiv(Cos(a) * BALL_LAUNCH_SPEED, 10000))

\* the velocity doReset sets for launch angle a
LaunchVel(a, towardPlayer) ==
  Vec(RoundDiv(Sin(a) * BALL_LAUNCH_SPEED, 10000),
      (IF towardPlayer THEN 1 ELSE -1) * RoundDiv(Cos(a) * BALL_LAUNCH_SPEED, 10000))

\* ------------------------------------------------------------ useFrame
MaxPX == TABLE_W \div 2 - PADDLE_W \div 2
MaxAX == TABLE_W \div 2 - PADDLE_W \div 2
WallX == TABLE_W \div 2 - BALL_R
Clamp(lo, hi, v) == Max(lo, Min(hi, v))

\* the near and far faces of a paddle's depth band, as distances from the net
BandNear == PLAYER_Z - PADDLE_D \div 2 - BALL_R
BandFar == PLAYER_Z + PADDLE_D \div 2 + BALL_R
\* the distance of the scoring boundary from the net
ScoreLine == TABLE_D \div 2 + 500
\* the horizontal reach of a paddle
Reach == PADDLE_W \div 2 + BALL_R

ClampDt(delta) == Min(delta, DT_MAX)

\* (mutant) the pointer mapped without the clamp
HumanOffsetFree(nx) == RoundDiv(nx * (((TABLE_W \div 2) * 11) \div 10), 1000)

\* the human paddle offset for pointer coordinate ndcX
HumanOffset(nx) ==
  Clamp(-MaxPX, MaxPX, RoundDiv(nx * (((TABLE_W \div 2) * 11) \div 10), 1000))

Integrate(pos, v, dt) ==
  Vec(pos.x + RoundDiv(v.x * dt, 1000), pos.z + RoundDiv(v.z * dt, 1000))

\* side walls: position and velocity after the two tests
WallPos(pos) ==
  IF pos.x > WallX THEN Vec(WallX, pos.z)
  ELSE IF pos.x < -WallX THEN Vec(-WallX, pos.z) ELSE pos

\* (mutant) both walls send the ball to the left
WallVelLeft(pos, v) ==
  IF pos.x > WallX THEN Vec(-Abs(v.x), v.z)
  ELSE IF pos.x < -WallX THEN Vec(-Abs(v.x), v.z) ELSE v

WallVel(pos, v) ==
  IF pos.x > WallX THEN Vec(-Abs(v.x), v.z)
  ELSE IF pos.x < -WallX THEN Vec(Abs(v.x), v.z) ELSE v

\* (mutant) the gain taken twice
AiPursuitTwice(ax, bx, d) ==
  Clamp(-MaxAX, MaxAX, ax + RoundDiv((bx - ax) * 2 * DIFF[d].lerp, 1000))

\* the AI paddle offset after one pursuit update toward ball offset bx
AiPursuit(ax, bx, d) ==
  Clamp(-MaxAX, MaxAX, ax + RoundDiv((bx - ax) * DIFF[d].lerp, 1000))

PlayerHitTest(pos, v, px) ==
  /\ v.z > 0
  /\ pos.z >= BandNear
  /\ pos.z <= BandFar
  /\ Abs(pos.x - px) < Reach

AiHitTest(pos, v, ax) ==
  /\ v.z < 0
  /\ pos.z <= -BandNear
  /\ pos.z >= -BandFar
  /\ Abs(pos.x - ax) < Reach

\* (mutant) the offset taken over the whole paddle width
DeflectionOverWidth(off, k) == RoundDiv(off * k, PADDLE_W)

\* the horizontal velocity a contact at offset off from the paddle centre adds
Deflection(off, k) == RoundDiv(off * k, PADDLE_W \div 2)

\* (mutant) the snap to the speed limit
SnapToMax(v, d) == NormalizeTo(v, DIFF[d].speedMax)

\* first hit: snap to the full game speed
Snap(v, d) == NormalizeTo(v, DIFF[d].speedInit)

\* a later hit: grow the speed while it is under speedMax
Grow(v, d, growth) ==
  IF LengthSq(v) < DIFF[d].speedMax * DIFF[d].speedMax
  THEN MultiplyScalar(v, growth, 100) ELSE v

SpeedUp(v, fh, d, growth) == IF ~fh THEN Snap(v, d) ELSE Grow(v, d, growth)

\* the simulation state: ball, paddles, first-hit flag.  What the step resolved:
\* hit, the paddles that made contact; pre, the velocity of the last contact after
\* its deflection and before its speed change; first, whether that contact was
\* the first of the point; wall, a wall reflection; moved, the integrated
\* position; refl, the velocity after the wall tests
\* (mutant) the human contact that leaves the ball where it is
PlayerContactInPlace(s, d) ==
  IF PlayerHitTest(s.pos, s.vel, s.playerX)
  THEN LET v1 == Vec(s.vel.x + Deflection(s.pos.x - s.playerX, PLAYER_DEFLECT),
                     -Abs(s.vel.z))
       IN [s EXCEPT !.vel = SpeedUp(v1, s.firstHit, d, PLAYER_GROWTH),
                    !.pre = v1,
                    !.first = ~s.firstHit,
                    !.firstHit = TRUE,
                    !.hit = s.hit \cup {"player"}]
  ELSE s

PlayerContact(s, d) ==
  IF PlayerHitTest(s.pos, s.vel, s.playerX)
  THEN LET v1 == Vec(s.vel.x + Deflection(s.pos.x - s.playerX, PLAYER_DEFLECT),
                     -Abs(s.vel.z))
       IN [s EXCEPT !.vel = SpeedUp(v1, s.firstHit, d, PLAYER_GROWTH),
                    !.pre = v1,
                    !.first = ~s.firstHit,
                    !.firstHit = TRUE,
                    !.pos = Vec(s.pos.x, BandNear),
                    !.hit = s.hit \cup {"player"}]
  ELSE s

\* (mutant) the AI contact that stops the ball in depth
AiContactAbsorbing(s, d) ==
  IF AiHitTest(s.pos, s.vel, s.aiX)
  THEN LET v1 == Vec(s.vel.x + Deflection(s.pos.x - s.aiX, AI_DEFLECT), 0)
       IN [s EXCEPT !.vel = SpeedUp(v1, s.firstHit, d, AI_GROWTH),
                    !.pre = v1,
                    !.first = ~s.firstHit,
                    !.firstHit = TRUE,
                    !.pos = Vec(s.pos.x, -BandNear),
                    !.hit = s.hit \cup {"ai"}]
  ELSE s

AiContact(s, d) ==
  IF AiHitTest(s.pos, s.vel, s.aiX)
  THEN LET v1 == Vec(s.vel.x + Deflection(s.pos.x - s.aiX, AI_DEFLECT),
                     Abs(s.vel.z))
       IN [s EXCEPT !.vel = SpeedUp(v1, s.firstHit, d, AI_GROWTH),
                    !.pre = v1,
                    !.first = ~s.firstHit,
                    !.firstHit = TRUE,
                    !.pos = Vec(s.pos.x, -BandNear),
                    !.hit = s.hit \cup {"ai"}]
  ELSE s

\* (mutant) the scoring boundary on the near face of the contact band
ScoreTestAtBand(pos) ==
  IF pos.z >= BandNear THEN "ai"
  ELSE IF pos.z <= -BandNear THEN "player" ELSE "none"

\* (mutant) the point given to the side behind whose boundary the ball went out
ScoreTestSameSide(pos) ==
  IF pos.z > ScoreLine THEN "player"
  ELSE IF pos.z < -ScoreLine THEN "ai" ELSE "none"

ScoreTest(pos) ==
  IF pos.z > ScoreLine THEN "ai"
  ELSE IF pos.z < -ScoreLine THEN "player" ELSE "none"

\* the body of the frame callback past its guard, up to the scoring test
SimStep(pos, v, ax, fh, nx, d, delta) ==
  LET dt == ClampDt(delta)
      px == HumanOffset(nx)
      p1 == Integrate(pos, v, dt)
      p2 == WallPos(p1)
      v2 == WallVel(p1, v)
      a2 == AiPursuit(ax, p2.x, d)
      s0 == [pos |-> p2, vel |-> v2, playerX |-> px, aiX |-> a2, firstHit |-> fh,
             hit |-> {}, pre |-> Vec(0, 0), first |-> FALSE,
             wall |-> p1.x > WallX \/ p1.x < -WallX, moved |-> p1, refl |-> v2]
  IN AiContact(PlayerContact(s0, d), d)

\* ------------------------------------------------------------ state
VARIABLES
  phase,       \* Game: useState<Phase>
  difficulty,  \* Game: useState<Difficulty>
  scores,      \* Game: useState({player, ai})
  winner,      \* Game: useState<"Player" | "AI" | null>, null as "none"
  ndcX,        \* ndcRef.current.x
  ball,        \* ballRef.current (x, z)
  vel,         \* velRef.current (x, z)
  playerX,     \* playerXRef.current
  aiX,         \* aiXRef.current
  firstHit,    \* firstHitRef.current
  scoredRef,   \* GameScene: scoredRef.current
  prevPhase,   \* GameScene: prevPhase.current
  timers,      \* the pending setTimeout callbacks of handleScore, oldest first
  rally,       \* history: paddle contacts since the last ball reset
  ev           \* history: what the last handler did

vars == <<phase, difficulty, scores, winner, ndcX, ball, vel, playerX, aiX,
          firstHit, scoredRef, prevPhase, timers, rally, ev>>

simVars == <<ball, vel, playerX, aiX, firstHit>>

\* the launch angles explored, in 1/1000 radian (a = (Math.random() - 0.5) * 0.5):
\* straight serves in a whole match, the whole range in a single point
MatchAngles == {0}
PointAngles == {-LAUNCH_HALF_ANGLE, 0, LAUNCH_HALF_ANGLE}

\* the pointer coordinates explored: the paddle under a straight serve or away
\* from it in a match; in a single point also contacts off the paddle centre
MatchNdc == {0, 1000}
PointNdc == {-200, 0, 1000}

\* the frame times explored, ms: a frame at the clamp, and a stalled frame
Deltas == {DT_MAX, StallFactor * DT_MAX}

NoEv == [kind |-> "init", ran |-> FALSE, hit |-> {}, pre |-> Vec(0, 0),
         first |-> FALSE, wall |-> FALSE, moved |-> Vec(0, 0), refl |-> Vec(0, 0),
         scorer |-> "none", abandoned |-> FALSE, old |-> FALSE, pick |-> "none"]

Init ==
  /\ phase = "start"
  /\ difficulty = "medium"
  /\ scores = [player |-> 0, ai |-> 0]
  /\ winner = "none"
  /\ ndcX = 0
  /\ ball = Centre
  /\ vel = Vec(0, BALL_LAUNCH_SPEED)
  /\ playerX = 0
  /\ aiX = 0
  /\ firstHit = FALSE
  /\ scoredRef = FALSE
  /\ prevPhase = "start"
  /\ timers = <<>>
  /\ rally = 0
  /\ ev = NoEv

\* ------------------------------------------------------------ GameScene render
\* (mutant) scoredRef cleared by every change of phase
RenderScoredCleared(p, sr) == IF prevPhase # p THEN FALSE ELSE sr

\* scoredRef after the render that sees phase p
RenderScored(p, sr) == IF prevPhase # p /\ p = "playing" THEN FALSE ELSE sr

\* setPhase(p) and the render that follows
SetPhase(p) ==
  /\ phase' = p
  /\ prevPhase' = p
  /\ scoredRef' = RenderScored(p, scoredRef)

\* ------------------------------------------------------------ timers
Tick(ts, delta) ==
  [i \in DOMAIN ts |-> [ts[i] EXCEPT !.left = Max(0, ts[i].left - delta)]]

Due(ts) == \E i \in DOMAIN ts : ts[i].left = 0

Remove(ts, i) == [j \in 1..(Len(ts) - 1) |-> IF j < i THEN ts[j] ELSE ts[j + 1]]

Mark(ts, f) == [i \in DOMAIN ts |-> [ts[i] EXCEPT ![f] = TRUE]]

\* ------------------------------------------------------------ doReset
\* (mutant) the reset that leaves the first-hit flag
DoResetKeepingFlag(diff, towardPlayer, angles) ==
  \E a \in angles :
    /\ ball' = Centre
    /\ vel' = LaunchVel(a, towardPlayer)
    /\ firstHit' = firstHit
    /\ rally' = 0

DoReset(diff, towardPlayer, angles) ==
  \E a \in angles :
    /\ ball' = Centre
    /\ vel' = LaunchVel(a, towardPlayer)
    /\ firstHit' = FALSE
    /\ rally' = 0

\* ------------------------------------------------------------ user intents
UserEv(k) == [NoEv EXCEPT !.kind = k]

Navigate(from, to, k) ==
  /\ phase \in from
  /\ SetPhase(to)
  /\ ev' = UserEv(k)
  /\ UNCHANGED <<difficulty, scores, winner, ndcX, simVars, timers, rally>>

ShowRules == Navigate({"start"}, "rules", "rules")
Back == Navigate({"rules", "difficulty"}, "start", "back")
SelectDifficulty == Navigate({"start", "rules"}, "difficulty", "select")
PlayAgain == winner # "none" /\ Navigate({"won"}, "difficulty", "rematch")
WonMenu == winner # "none" /\ Navigate({"won"}, "start", "wonmenu")

ReturnToMenu ==
  /\ phase \in {"playing", "between"}
  /\ SetPhase("start")
  /\ timers' = Mark(timers, "abandoned")
  /\ ev' = UserEv("menu")
  /\ UNCHANGED <<difficulty, scores, winner, ndcX, simVars, rally>>

StartGame(d, angles) ==
  /\ phase = "difficulty"
  /\ scores' = [player |-> 0, ai |-> 0]
  /\ winner' = "none"
  /\ difficulty' = d
  /\ DoReset(d, TRUE, angles)
  /\ SetPhase("playing")
  /\ timers' = Mark(timers, "old")
  /\ ev' = [UserEv("start") EXCEPT !.pick = d]
  /\ UNCHANGED <<ndcX, playerX, aiX>>

MouseMove(x) ==
  /\ x # ndcX
  /\ ndcX' = x
  /\ ev' = UserEv("mouse")
  /\ UNCHANGED <<phase, difficulty, scores, winner, simVars, scoredRef, prevPhase,
                 timers, rally>>

\* ------------------------------------------------------------ handleScore
\* (mutant) the point taken from the other side
NextScoresTaken(scorer) ==
  [player |-> IF scorer = "player" THEN scores.player + 1 ELSE Max(0, scores.player - 1),
   ai     |-> IF scorer = "ai" THEN scores.ai + 1 ELSE Max(0, scores.ai - 1)]

NextScores(scorer) ==
  [player |-> IF scorer = "player" THEN scores.player + 1 ELSE scores.player,
   ai     |-> IF scorer = "ai" THEN scores.ai + 1 ELSE scores.ai]

\* (mutant) the win test for the human only
WinnerOfHuman(next) == IF next.player >= WIN_SCORE THEN "Player" ELSE "none"

\* (mutant) the win test one point late
WinnerOfLate(next) ==
  IF next.player > WIN_SCORE THEN "Player"
  ELSE IF next.ai > WIN_SCORE THEN "AI" ELSE "none"

\* the winner handleScore records for the new scores, "none" when the match goes on
WinnerOf(next) ==
  IF next.player >= WIN_SCORE THEN "Player"
  ELSE IF next.ai >= WIN_SCORE THEN "AI" ELSE "none"

\* (mutant) the next serve sent toward the scorer
NewTimerToScorer(scorer) ==
  [left |-> RESET_DELAY, towardPlayer |-> scorer = "player", diff |-> difficulty,
   abandoned |-> FALSE, old |-> FALSE]

NewTimer(scorer) ==
  [left |-> RESET_DELAY, towardPlayer |-> scorer = "ai", diff |-> difficulty,
   abandoned |-> FALSE, old |-> FALSE]

\* (mutant) the reset scheduled before the win test
ScheduleAlways(ts, next, scorer) == Append(ts, NewTimer(scorer))

\* the timers after handleScore: one more when the match goes on
Schedule(ts, next, scorer) ==
  IF WinnerOf(next) = "none" THEN Append(ts, NewTimer(scorer)) ELSE ts

\* handleScore, called by the frame that has set scoredRef
HandleScore(scorer, delta) ==
  LET next == NextScores(scorer)
      w    == WinnerOf(next)
  IN /\ scores' = next
     /\ winner' = IF w = "none" THEN winner ELSE w
     /\ phase' = IF w = "none" THEN "between" ELSE "won"
     /\ prevPhase' = phase'
     /\ scoredRef' = RenderScored(phase', TRUE)
     /\ timers' = Schedule(Tick(timers, delta), next, scorer)

\* ------------------------------------------------------------ the frame callback
\* (mutant) the guard without its phase test
ReturnsWhenScored(p, sr) == sr

\* the guard of the frame callback: it returns before the simulation
Returns(p, sr) == p # "playing" \/ sr

\* a frame of delta ms; cap bounds the paddle contacts explored in a point
Frame(delta, cap) ==
  /\ ~Due(timers)
  /\ IF Returns(phase, scoredRef)
     THEN /\ timers' = Tick(timers, delta)
          /\ ev' = [NoEv EXCEPT !.kind = "frame"]
          /\ UNCHANGED <<phase, difficulty, scores, winner, ndcX, simVars,
                         scoredRef, prevPhase, rally>>
     ELSE LET s  == SimStep(ball, vel, aiX, firstHit, ndcX, difficulty, delta)
              sc == ScoreTest(s.pos)
          IN /\ rally + Cardinality(s.hit) <= cap
             /\ rally' = rally + Cardinality(s.hit)
             /\ ball' = s.pos
             /\ vel' = s.vel
             /\ playerX' = s.playerX
             /\ aiX' = s.aiX
             /\ firstHit' = s.firstHit
             /\ ev' = [NoEv EXCEPT !.kind = "frame", !.ran = TRUE, !.hit = s.hit,
                                   !.pre = s.pre, !.first = s.first,
                                   !.wall = s.wall, !.moved = s.moved,
                                   !.refl = s.refl, !.scorer = sc]
             /\ IF sc # "none"
                THEN HandleScore(sc, delta)
                ELSE /\ timers' = Tick(timers, delta)
                     /\ UNCHANGED <<phase, scores, winner, scoredRef, prevPhase>>
             /\ UNCHANGED <<difficulty, ndcX>>

\* ------------------------------------------------------------ the timer callback
TimerFire(angles) ==
  \E i \in DOMAIN timers :
    /\ timers[i].left = 0
    /\ DoReset(timers[i].diff, timers[i].towardPlayer, angles)
    /\ SetPhase("playing")
    /\ timers' = Remove(timers, i)
    /\ ev' = [NoEv EXCEPT !.kind = "timer", !.abandoned = timers[i].abandoned,
                          !.old = timers[i].old]
    /\ UNCHANGED <<difficulty, scores, winner, ndcX, playerX, aiX>>

\* ------------------------------------------------------------ a whole match
Next ==
  \/ ShowRules
  \/ Back
  \/ SelectDifficulty
  \/ PlayAgain
  \/ WonMenu
  \/ ReturnToMenu
  \/ \E d \in Difficulty : StartGame(d, MatchAngles)
  \/ \E x \in MatchNdc : MouseMove(x)
  \/ \E delta \in Deltas : Frame(delta, MaxRally)
  \/ TimerFire(MatchAngles)

Spec == Init /\ [][Next]_vars

\* ------------------------------------------------------------ the first points
\* the first points of the first match, over the whole range of serves and
\* pointers
PointNext ==
  \/ SelectDifficulty
  \/ \E d \in Difficulty : StartGame(d, PointAngles)
  \/ \E x \in PointNdc : MouseMove(x)
  \/ Frame(DT_MAX, MaxPointRally)
  \/ (scores.player + scores.ai < MaxPoints /\ TimerFire(PointAngles))

SpecPoint == Init /\ [][PointNext]_vars

\* ------------------------------------------------------------ a long rally
\* a straight rally under a centred paddle at 60 frames per second
RallyNext ==
  \/ SelectDifficulty
  \/ \E d \in Difficulty : StartGame(d, MatchAngles)
  \/ Frame(FineDelta, MaxLongRally)

SpecRally == Init /\ [][RallyNext]_vars

\* ------------------------------------------------------------ the AI pursuit
\* the pursuit update alone, applied again and again under a ball that stands
\* still at a horizontal position within the walls
BallOffsets == {-WallX, -MaxAX, -1000, -1, 0, 7, 600, MaxAX - 1, WallX}
AiOffsets == {-MaxAX, -13, 0, 500, MaxAX}

PursuitInit ==
  /\ phase = "playing"
  /\ difficulty \in Difficulty
  /\ scores = [player |-> 0, ai |-> 0]
  /\ winner = "none"
  /\ ndcX = 0
  /\ ball \in {Vec(b, 0) : b \in BallOffsets}
  /\ vel = Vec(0, 0)
  /\ playerX = 0
  /\ aiX \in AiOffsets
  /\ firstHit = FALSE
  /\ scoredRef = FALSE
  /\ prevPhase = "playing"
  /\ timers = <<>>
  /\ rally = 0
  /\ ev = NoEv

Pursue ==
  /\ aiX' = AiPursuit(aiX, ball.x, difficulty)
  /\ ev' = [NoEv EXCEPT !.kind = "pursue"]
  /\ UNCHANGED <<phase, difficulty, scores, winner, ndcX, ball, vel, playerX,
                 firstHit, scoredRef, prevPhase, timers, rally>>

SpecPursuit == PursuitInit /\ [][Pursue]_vars

\* ------------------------------------------------------------ points in time
\* the first points of a match, abandoned or not, in which time does not stop:
\* the render loop keeps calling the frame callback, and the event loop runs a
\* timer that is due
LiveFrame ==
  /\ \E delta \in Deltas : Frame(delta, MaxRally)
  /\ scores'.player + scores'.ai <= MaxPoints

LiveNext ==
  \/ SelectDifficulty
  \/ ReturnToMenu
  \/ \E d \in Difficulty : StartGame(d, MatchAngles)
  \/ \E x \in MatchNdc : MouseMove(x)
  \/ LiveFrame
  \/ TimerFire(MatchAngles)

\* a frame that returns at the guard: it only lets time pass
IdleFrame ==
  /\ Returns(phase, scoredRef)
  /\ \E delta \in Deltas : Frame(delta, MaxRally)

SpecLive ==
  /\ Init
  /\ [][LiveNext]_vars
  /\ WF_vars(IdleFrame)
  /\ WF_vars(TimerFire(MatchAngles))

\* ------------------------------------------------------------ a wide pointer
\* the first point of a match under a pointer that also leaves the play area
\* (a touch dragged beyond the edge gives a coordinate outside -1..1)
WideNdc == {-3000, -200, 0, 150, 3000}

WideNext ==
  \/ SelectDifficulty
  \/ \E d \in Difficulty : StartGame(d, PointAngles)
  \/ \E x \in WideNdc : MouseMove(x)
  \/ Frame(DT_MAX, MaxPointRally)

SpecWide == Init /\ [][WideNext]_vars

\* ------------------------------------------------------------ a contact
\* the ball about to reach a paddle row, at chosen offsets from the paddle: on
\* its serve (first-hit flag false, launch speed) or on a straight return
\* (first-hit flag true, speedInit), followed at 60 frames per second
ContactOffsets == {-PADDLE_W \div 2, -PADDLE_W \div 4, 0, PADDLE_W \div 4, PADDLE_W \div 2}
ContactAiOffsets == {-PADDLE_W \div 4, 0, PADDLE_W \div 4}
Sides == {1, -1}

ContactInit ==
  /\ phase = "playing"
  /\ difficulty \in Difficulty
  /\ scores = [player |-> 0, ai |-> 0]
  /\ winner = "none"
  /\ ndcX = 0
  /\ firstHit \in BOOLEAN
  /\ \E side \in Sides, x \in ContactOffsets :
       /\ ball = Vec(x, side * (BandNear - ApproachGap))
       /\ vel = Vec(0, side * (IF firstHit THEN DIFF[difficulty].speedInit
                                            ELSE BALL_LAUNCH_SPEED))
  /\ playerX = 0
  /\ aiX \in ContactAiOffsets
  /\ scoredRef = FALSE
  /\ prevPhase = "playing"
  /\ timers = <<>>
  /\ rally = IF firstHit THEN 1 ELSE 0
  /\ ev = NoEv

ContactNext == Frame(FineDelta, MaxRally)

SpecContact == ContactInit /\ [][ContactNext]_vars

\* ------------------------------------------------------------ steps
\* the step is a firing of a between-points timer
TimerStep == Len(timers') < Len(timers)
\* the step is a score event
ScoreStep == scores'.player + scores'.ai = scores.player + scores.ai + 1
BallUntouched == ball' = ball /\ vel' = vel /\ firstHit' = firstHit

\* ------------------------------------------------------------ claims
\* C1: after a return to menu from BetweenPoints the pending timer does nothing:
\* its firing resets no ball and leaves the phase alone, and the phase leaves
\* Start only for Rules or DifficultySelect, on a user action.
C1_MenuAbandonCancelsReset ==
  [][/\ (TimerStep /\ ev'.abandoned) => (BallUntouched /\ phase' = phase)
     /\ phase = "start" => phase' \in {"start", "rules", "difficulty"}]_vars

\* C2: a timer scheduled in a match that was abandoned from BetweenPoints, firing
\* after a new match has started, leaves the ball, the first-hit flag and the
\* phase of the new match alone.
C2_OldTimerLeavesNewMatch ==
  [][(TimerStep /\ ev'.abandoned /\ ev'.old) => (BallUntouched /\ phase' = phase)]_vars

\* C3: a score event in Playing that brings the scorer's counter to 7 moves the
\* phase to Won and records the scorer as winner; one that leaves both counters
\* at 6 or less moves the phase to BetweenPoints and records no winner.
Title(sc) == IF sc = "player" THEN "Player" ELSE "AI"

C3_WinDetection ==
  [][ScoreStep =>
       /\ phase = "playing"
       /\ ev'.scorer \in {"player", "ai"}
       /\ scores'[ev'.scorer] = scores[ev'.scorer] + 1
       /\ scores'[ev'.scorer] = WIN_SCORE
            => phase' = "won" /\ winner' = Title(ev'.scorer)
       /\ (scores'.player <= WIN_SCORE - 1 /\ scores'.ai <= WIN_SCORE - 1)
            => phase' = "between" /\ winner' = "none"]_vars

C3_Witness ==
  /\ ev.scorer = "player"
  /\ scores.player = WIN_SCORE
  /\ scores.ai = WIN_SCORE - 1
  /\ phase = "won"
  /\ winner = "Player"

\* C4: at the end of every simulation step the ball's speed is at most the
\* active difficulty's speedMax.
C4_SpeedCap ==
  ev.ran => LengthSq(vel) <= DIFF[difficulty].speedMax * DIFF[difficulty].speedMax

\* C5: the first paddle contact of a point, by either paddle, leaves the ball at
\* speedInit (to SpeedTol quanta) in the direction of the deflected velocity; a
\* later contact of the point does not snap: it leaves the deflected velocity as
\* it is or grown by the paddle's factor.
ContactStep == ev'.kind = "frame" /\ ev'.hit # {}
Cross(a, b) == a.x * b.z - a.z * b.x
Dot(a, b) == a.x * b.x + a.z * b.z
SameDirection(a, b) == Abs(Cross(a, b)) <= Length(b) /\ Dot(a, b) > 0
GrowthOf(h) == IF "ai" \in h THEN AI_GROWTH ELSE PLAYER_GROWTH

C5_ServeToRallySnap ==
  [][ContactStep =>
       IF ~firstHit
       THEN /\ Abs(Length(vel') - DIFF[difficulty].speedInit) <= SpeedTol
            /\ SameDirection(vel', ev'.pre)
       ELSE \/ vel' = ev'.pre
            \/ vel' = Vec(RoundDiv(ev'.pre.x * GrowthOf(ev'.hit), 100),
                          RoundDiv(ev'.pre.z * GrowthOf(ev'.hit), 100))]_vars

\* a first contact by the AI paddle, off the paddle centre
C5_Witness ==
  /\ ev.hit = {"ai"}
  /\ ev.first
  /\ ev.pre.x # 0
  /\ Abs(Length(vel) - DIFF[difficulty].speedInit) <= SpeedTol

\* C6: with the frame time clamped to DT_MAX, no simulation step carries the ball
\* from the near side of a paddle's depth band to beyond its far side, and a ball
\* that crosses the near face of the band within the paddle's reach makes
\* contact in that step.
SimulationStep == ev'.kind = "frame" /\ ev'.ran
CrossesPlayerBand == vel.z > 0 /\ ball.z < BandNear /\ ev'.moved.z >= BandNear
CrossesAiBand == vel.z < 0 /\ ball.z > -BandNear /\ ev'.moved.z <= -BandNear

C6_NoTunneling ==
  [][SimulationStep =>
       /\ CrossesPlayerBand => ev'.moved.z <= BandFar
       /\ CrossesAiBand => ev'.moved.z >= -BandFar
       /\ (CrossesPlayerBand /\ Abs(ball'.x - playerX') < Reach)
            => "player" \in ev'.hit
       /\ (CrossesAiBand /\ Abs(ball'.x - aiX') < Reach)
            => "ai" \in ev'.hit]_vars

\* C7: a step whose integrated horizontal position is beyond a side wall leaves
\* the ball on that wall, its horizontal velocity (before any contact of the
\* step) reversed and of the same magnitude; the ball is within the walls at the
\* end of every step.
C7_WallReflection ==
  [][SimulationStep =>
       /\ ev'.moved.x > WallX
            => ball'.x = WallX /\ vel.x > 0 /\ ev'.refl = Vec(-vel.x, vel.z)
       /\ ev'.moved.x < -WallX
            => ball'.x = -WallX /\ vel.x < 0 /\ ev'.refl = Vec(-vel.x, vel.z)
       /\ Abs(ball'.x) <= WallX]_vars

\* a reflection off the left wall, with no contact in the step
C7_Witness ==
  /\ ev.wall
  /\ ev.hit = {}
  /\ ev.moved.x < -WallX
  /\ ball.x = -WallX
  /\ vel.x > 0

\* C8: under a ball that stands still, for each of the four gains one pursuit
\* update with its clamp never takes the AI paddle further from the ball and
\* never takes it across the ball.
C8_PursuitConverges ==
  [][ev'.kind = "pursue" =>
       /\ Abs(ball.x - aiX') <= Abs(ball.x - aiX)
       /\ aiX <= ball.x => aiX' <= ball.x
       /\ aiX >= ball.x => aiX' >= ball.x]_vars

\* the paddle a step away from a ball it has pursued with the top gain
C8_Witness ==
  /\ ev.kind = "pursue"
  /\ difficulty = "very_hard"
  /\ ball.x = 600
  /\ aiX \in 500..599

\* C9: in Won the scores and the winner stay, no simulation step and no ball
\* reset runs, no timer is pending or fires, and the phase leaves Won only on the
\* user's rematch (to DifficultySelect) or menu (to Start).
C9_WonIsTerminal ==
  [][phase = "won" =>
       /\ scores' = scores
       /\ winner' = winner
       /\ BallUntouched
       /\ ~ev'.ran
       /\ timers = <<>>
       /\ ~TimerStep
       /\ phase' \in {"won", "difficulty", "start"}
       /\ phase' = "difficulty" => ev'.kind = "rematch"
       /\ phase' = "start" => ev'.kind = "wonmenu"]_vars

\* a frame that went by in Won without a simulation step
C9_Witness ==
  /\ phase = "won"
  /\ ev.kind = "frame"
  /\ ~ev.ran
  /\ winner = "AI"
  /\ scores.ai = WIN_SCORE

\* C10: picking a tier in DifficultySelect moves the phase to Playing with the
\* scores at 0-0, no winner, the picked tier as difficulty, the ball at the
\* centre launched toward the human side and the first-hit flag false; the
\* difficulty changes at no other step.
C10_MatchStart ==
  [][/\ ev'.kind = "start" =>
          /\ phase = "difficulty"
          /\ phase' = "playing"
          /\ scores' = [player |-> 0, ai |-> 0]
          /\ winner' = "none"
          /\ ev'.pick \in Difficulty
          /\ difficulty' = ev'.pick
          /\ ball' = Centre
          /\ vel'.z > 0
          /\ firstHit' = FALSE
     /\ difficulty' # difficulty => ev'.kind = "start"]_vars

\* a rematch started on another tier
C10_Witness ==
  /\ ev.kind = "start"
  /\ ev.pick = "very_hard"
  /\ phase = "playing"
  /\ scores = [player |-> 0, ai |-> 0]
  /\ winner = "none"

\* C11: a score that does not end the match leaves the phase BetweenPoints with
\* one timer pending; unless the user leaves for the menu the timer fires, once,
\* and its firing serves the ball from the centre toward the side behind whose
\* boundary the ball went out and returns the phase to Playing.
C11_BetweenPointsCycle ==
  /\ [][(ScoreStep /\ WinnerOf(scores') = "none")
          => phase' = "between" /\ Len(timers') = 1 /\ ~timers'[1].abandoned]_vars
  /\ [][(phase = "between" /\ phase' # "between")
          => \/ ev'.kind = "menu"
             \/ /\ TimerStep
                /\ ~ev'.abandoned
                /\ timers' = <<>>
                /\ phase' = "playing"
                /\ ball' = Centre
                /\ ball.z > ScoreLine => vel'.z > 0
                /\ ball.z < -ScoreLine => vel'.z < 0
                /\ Abs(ball.z) > ScoreLine]_vars
  /\ [][(TimerStep /\ ~ev'.abandoned) => phase = "between"]_vars
  /\ (phase = "between") ~> (phase = "playing" \/ ev.kind = "menu")

\* the serve toward the AI after a point of the human
C11_Witness ==
  /\ ev.kind = "timer"
  /\ ~ev.abandoned
  /\ phase = "playing"
  /\ scores.player >= 1
  /\ ball = Centre
  /\ vel.z < 0

\* C12: a frame in a phase other than Playing leaves the ball, its velocity, both
\* paddle offsets, the first-hit flag and the scores as they are, runs no
\* simulation step and signals no score.
C12_NoSimulationOutsidePlaying ==
  [][(ev'.kind = "frame" /\ phase # "playing") =>
       /\ UNCHANGED <<ball, vel, playerX, aiX, firstHit, scores>>
       /\ ~ev'.ran
       /\ ev'.scorer = "none"
       /\ phase' = phase]_vars

\* a frame between two points, the ball lying where it went out
C12_Witness ==
  /\ phase = "between"
  /\ ev.kind = "frame"
  /\ ~ev.ran
  /\ Abs(ball.z) > ScoreLine
  /\ timers # <<>>
  /\ timers[1].left < RESET_DELAY

\* C13: a counter goes up only in a simulation step that leaves the ball strictly
\* beyond a scoring boundary; beyond the human side the AI's counter goes up by
\* one and the human's stays, beyond the AI side the human's goes up by one and
\* the AI's stays; a step that leaves the ball within the boundaries scores
\* nothing.
RanFrame == ev'.kind = "frame" /\ ev'.ran

C13_ScoringAttribution ==
  [][/\ scores'.ai > scores.ai => RanFrame /\ ball'.z > ScoreLine
     /\ scores'.player > scores.player => RanFrame /\ ball'.z < -ScoreLine
     /\ (RanFrame /\ ball'.z > ScoreLine)
          => /\ ev'.scorer = "ai"
             /\ scores' = [scores EXCEPT !.ai = scores.ai + 1]
     /\ (RanFrame /\ ball'.z < -ScoreLine)
          => /\ ev'.scorer = "player"
             /\ scores' = [scores EXCEPT !.player = scores.player + 1]
     /\ (RanFrame /\ Abs(ball'.z) <= ScoreLine)
          => ev'.scorer = "none" /\ scores' = scores]_vars

\* the first point of a match, scored by the human behind the AI side
C13_Witness ==
  /\ ev.kind = "frame"
  /\ ev.scorer = "player"
  /\ ball.z < -ScoreLine
  /\ scores = [player |-> 1, ai |-> 0]
  /\ phase = "between"

\* C14: both counters are natural numbers; they change only at a match start,
\* which sets them to 0-0, and at a score event, where neither decreases and
\* their sum rises by one; no menu, rules or difficulty-select step, no timer
\* and no simulation step without a score changes them.
C14_ScoreLifecycle ==
  /\ [](scores.player \in Nat /\ scores.ai \in Nat)
  /\ [][/\ ev'.kind = "start" => scores' = [player |-> 0, ai |-> 0]
        /\ scores' # scores =>
             \/ ev'.kind = "start"
             \/ /\ RanFrame
                /\ ev'.scorer # "none"
                /\ scores'.player >= scores.player
                /\ scores'.ai >= scores.ai
                /\ ScoreStep]_vars

\* a match started over the score of an abandoned one, whose timer is pending
C14_Witness ==
  /\ ev.kind = "start"
  /\ scores = [player |-> 0, ai |-> 0]
  /\ timers # <<>>
  /\ timers[1].old
  /\ timers[1].abandoned

\* C15: after every simulation step the human paddle offset and the AI paddle
\* offset are within -maxOffset..maxOffset, whatever the pointer coordinate
\* (outside -1..1 included) and the ball position.
C15_PaddleRange ==
  ev.ran => /\ -MaxPX <= playerX /\ playerX <= MaxPX
            /\ -MaxAX <= aiX /\ aiX <= MaxAX

\* a step under a pointer beyond the right edge, the AI paddle held at its limit
\* under a ball that is nearer the wall
C15_Witness ==
  /\ ev.ran
  /\ ndcX = 3000
  /\ playerX = MaxPX
  /\ Abs(aiX) = MaxAX
  /\ Abs(ball.x) > MaxAX

\* C16: a simulation step changes at most one counter; a score event sets
\* scoredRef and takes the phase out of Playing; no simulation step runs while
\* scoredRef is set or the phase is not Playing; scoredRef is clear whenever the
\* phase is Playing, so each entry into Playing allows one score event and no
\* more.
C16_OneScorePerPoint ==
  /\ [](phase = "playing" => ~scoredRef)
  /\ [][/\ RanFrame => /\ phase = "playing" /\ ~scoredRef
                       /\ Cardinality({s \in {"player", "ai"} :
                                         scores'[s] # scores[s]}) <= 1
        /\ (RanFrame /\ ev'.scorer # "none")
             => scoredRef' /\ phase' # "playing" /\ ScoreStep
        /\ (scoredRef /\ ~scoredRef') => phase # "playing" /\ phase' = "playing"]_vars

\* a frame that returned at the guard after the first score of a match
C16_Witness ==
  /\ scoredRef
  /\ ev.kind = "frame"
  /\ ~ev.ran
  /\ phase = "between"
  /\ scores.player + scores.ai = 1

\* C17: a human contact happens only to a ball moving toward the human side; it
\* turns the depth velocity toward the AI side with the same magnitude (before
\* the speed change) and leaves the ball on the near face of the contact band;
\* the AI contact is the mirror image; a step makes at most one contact, and the
\* paddle that made contact in a step makes none in the next step.
C17_ContactResponse ==
  [][RanFrame =>
       /\ "player" \in ev'.hit
            => /\ vel.z > 0
               /\ ev'.pre.z = -vel.z
               /\ vel'.z < 0
               /\ ball'.z = PLAYER_Z - PADDLE_D \div 2 - BALL_R
       /\ "ai" \in ev'.hit
            => /\ vel.z < 0
               /\ ev'.pre.z = -vel.z
               /\ vel'.z > 0
               /\ ball'.z = AI_Z + PADDLE_D \div 2 + BALL_R
       /\ Cardinality(ev'.hit) <= 1
       /\ (ev.kind = "frame" /\ ev.hit # {}) => ev'.hit \cap ev.hit = {}]_vars

\* a human contact off the paddle centre
C17_Witness ==
  /\ ev.hit = {"player"}
  /\ ev.pre.x # 0
  /\ ball.z = BandNear
  /\ vel.z < 0

\* C18: a human contact adds to the horizontal velocity, before the speed change,
\* 3 times the offset of the ball from the paddle centre over half the paddle
\* width, so a contact a quarter of the paddle width right of a centred paddle
\* adds 1.5; an AI contact adds 2 times that ratio (to half a quantum).
Added == ev'.pre.x - ev'.refl.x

C18_PaddleDeflection ==
  [][RanFrame =>
       /\ "player" \in ev'.hit
            => Added * (PADDLE_W \div 2) = (ball'.x - playerX') * PLAYER_DEFLECT
       /\ ("player" \in ev'.hit /\ playerX' = 0 /\ 2 * ball'.x = PADDLE_W \div 2)
            => 2 * Added = PLAYER_DEFLECT
       /\ "ai" \in ev'.hit
            => Abs(Added * (PADDLE_W \div 2) - (ball'.x - aiX') * AI_DEFLECT)
                 <= PADDLE_W \div 4]_vars

\* the contact a quarter of the paddle width right of the centred human paddle
C18_Witness ==
  /\ ev.hit = {"player"}
  /\ playerX = 0
  /\ 2 * ball.x = PADDLE_W \div 2
  /\ 2 * (ev.pre.x - ev.refl.x) = PLAYER_DEFLECT

\* C19: the first-hit flag is false after every ball reset (a match start or a
\* timer), true after every paddle contact, and changes at no other step; it is
\* true exactly when a paddle has struck the ball since the last reset.
BallReset == ev'.kind \in {"start", "timer"}

C19_FirstHitLifecycle ==
  /\ [](firstHit <=> rally > 0)
  /\ [][/\ BallReset => ~firstHit' /\ ball' = Centre
        /\ (RanFrame /\ ev'.hit # {}) => firstHit' /\ (ev'.first <=> ~firstHit)
        /\ (firstHit /\ ~firstHit') => BallReset
        /\ (~firstHit /\ firstHit') => RanFrame /\ ev'.hit # {}]_vars

\* the second contact of a point
C19_Witness ==
  /\ phase = "playing"
  /\ firstHit
  /\ rally = 2
  /\ ev.hit # {}
  /\ ~ev.first

\* C20: the velocity that a first contact normalises has a depth component that
\* is not zero, and so a length that is not zero.
C20_NoZeroNormalisation ==
  [][(RanFrame /\ ev'.hit # {} /\ ev'.first) =>
       /\ ev'.pre.z # 0
       /\ LengthSq(ev'.pre) > 0
       /\ vel.z # 0]_vars

\* a first contact by the human paddle
C20_Witness ==
  /\ ev.first
  /\ ev.hit = {"player"}
  /\ ev.pre.z < 0
  /\ rally = 1

\* C21: in every reachable state neither counter is above WIN_SCORE and at most
\* one counter is at WIN_SCORE.
C21_ScoreBound ==
  /\ scores.player <= WIN_SCORE
  /\ scores.ai <= WIN_SCORE
  /\ ~(scores.player = WIN_SCORE /\ scores.ai = WIN_SCORE)

\* the final score of a match the AI won 7-6, still shown after the user has
\* left the win overlay for the menu
C21_Witness ==
  /\ scores = [player |-> WIN_SCORE - 1, ai |-> WIN_SCORE]
  /\ ev.kind = "wonmenu"
  /\ phase = "start"
  /\ timers = <<>>

\* C22: a simulation step makes at most one paddle contact, and a step that
\* makes a contact signals no score: it leaves the scores, the phase and
\* scoredRef as they are, with the ball on the near face of the contact band.
C22_SingleResolution ==
  [][RanFrame =>
       /\ ~({"player", "ai"} \subseteq ev'.hit)
       /\ ev'.hit # {}
            => /\ ev'.scorer = "none"
               /\ scores' = scores
               /\ phase' = "playing"
               /\ ~scoredRef'
               /\ Abs(ball'.z) < ScoreLine]_vars

\* a later contact by the AI paddle, with no score signalled
C22_Witness ==
  /\ ev.kind = "frame"
  /\ ev.hit = {"ai"}
  /\ ~ev.first
  /\ ev.scorer = "none"
  /\ ball.z = -BandNear
  /\ phase = "playing"
  /\ ~scoredRef

====
